---- MODULE Spec2Model ----
(***************************************************************************)
(* A model of the per-product extraction pipeline of the ABB/Baldor        *)
(* catalog scraper: main (src/src/main.py), ABBScrapping                   *)
(* (src/src/scrappers/abb_scrapper.py), the HTTP and browser wrappers      *)
(* (src/src/wrappers) and the JSON helper (src/src/utils.py).              *)
(*                                                                         *)
(* Python values are encoded as follows.  An optional value is a tuple of  *)
(* length 0 (None) or 1 (the value).  A configuration value carries its    *)
(* Python type in a "type" field.  A filesystem path is the tuple of its   *)
(* segments.  A text whose characters are inspected is a tuple of          *)
(* one-character strings, any other text a TLA+ string.                    *)
(***************************************************************************)
EXTENDS Integers, Sequences, FiniteSets, TLC

\* ----------------------------------------------------------------- bounds
\* Number of distinct product ids of the catalog universe.
NumIds == 2
\* Longest explicit id list (cfg["unique"]) that is enumerated.
MaxUnique == 2

IdPool == <<"A", "B", "C", "D", "E">>
Ids == {IdPool[i] : i \in 1..NumIds}

\* -------------------------------------------------------- Python encoding
None == <<>>
Some(v) == <<v>>
IsNone(o) == o = <<>>
Val(o) == o[1]
Option(S) == {None} \cup {Some(v) : v \in S}

Range(s) == {s[i] : i \in 1..Len(s)}
\* Every order in which the elements of a set can be iterated.
Perms(S) == {s \in [1..Cardinality(S) -> S] : \A i, j \in 1..Cardinality(S) : s[i] = s[j] => i = j}
\* The sequences over S of length at most n.
SeqUpTo(S, n) == UNION {[1..k -> S] : k \in 0..n}

\* -------------------------------------------------------------- constants
PRODUCT_URL == "https://www.baldor.com/catalog/"
OUTPUT == "output"
MetadataDir == <<OUTPUT, "metadata">>
AssetsDir == <<OUTPUT, "assets">>

\* str(x) of an optional string, as an f-string renders it.
Str(o) == IF IsNone(o) THEN "None" ELSE Val(o)
\* The names a metadata file stem can take: a product id or "None".
Stems == Ids \cup {"None"}
JsonName(stem) == stem \o ".json"
MetadataFile(stem) == Append(MetadataDir, JsonName(stem))
\* Path.stem of a metadata file name.
StemOf(fname) == CHOOSE s \in Stems : JsonName(s) = fname

\* ------------------------------------------------ main.get_processed_ids
\* The stems of the *.json files directly under the metadata directory, or
\* None when the directory does not exist.
get_processed_ids(dsk) ==
    IF MetadataDir \in dsk
    THEN Some({StemOf(p[3]) : p \in {q \in dsk : Len(q) = 3 /\ SubSeq(q, 1, 2) = MetadataDir}})
    ELSE None

\* ------------------------------------------- ABBScrapping.get_products
\* random.sample(population, k): ValueError when k is negative or larger
\* than the population, otherwise any k distinct elements in any order.
SampleRaises(pop, k) == k < 0 \/ k > Cardinality(pop)

\* The outcome of a call: raised with an exception name, or a returned value.
Raise(e) == [raised |-> TRUE, exc |-> e, value |-> <<>>]
Return(v) == [raised |-> FALSE, exc |-> "", value |-> v]

\* IsList accepting any iterable of ids, a string included.
IsListOrStr(unique) == unique.type \in {"list", "str"}

\* isinstance(unique, list), line 54.
IsList(unique) == unique.type = "list"

\* FilterProcessed without the difference: the processed ids stay.
FilterProcessedKeepsAll(products, processed) == products

\* Lines 59-61: set(products).difference(processed_ids) when a set is given.
FilterProcessed(products, processed) ==
    IF IsNone(processed) THEN products ELSE products \ Val(processed)

\* Line 63: one URL per remaining product.
ProductUrls(products) == [i \in 1..Len(products) |-> PRODUCT_URL \o products[i]]

\* Lines 49-57: the candidate collections the first branch can produce, or a
\* raise.  feed is the id set of the catalog document, or None when the GET
\* of the catalog failed.
Candidates(limit, unique, feed) ==
    IF unique.type = "NoneType"
    THEN IF IsNone(limit) THEN {Val(feed)}
         ELSE {U \in SUBSET Val(feed) : Cardinality(U) = Val(limit)}
    ELSE {Range(unique.items)}

GetProductsRaises(limit, unique, feed) ==
    IF unique.type = "NoneType"
    THEN \* get_response returned False: False.raw in get_xml_respone
         IF IsNone(feed) THEN "AttributeError"
         ELSE IF ~IsNone(limit) /\ SampleRaises(Val(feed), Val(limit)) THEN "ValueError"
         ELSE ""
    ELSE IF IsList(unique) THEN "" ELSE "ValueError"

\* All outcomes get_products can have: the remaining products are a set (or a
\* random sample), so the URL list comes in any order of them.
get_products(limit, unique, processed, feed) ==
    IF GetProductsRaises(limit, unique, feed) # ""
    THEN {Raise(GetProductsRaises(limit, unique, feed))}
    ELSE {Return(ProductUrls(s)) :
            s \in UNION {Perms(FilterProcessed(U, processed)) : U \in Candidates(limit, unique, feed)}}

\* ------------------------------------------------------------------ texts
\* A text whose characters the code inspects is a tuple of one-character
\* strings; Join makes the string of it.
RECURSIVE Join(_)
Join(cs) == IF cs = <<>> THEN "" ELSE Head(cs) \o Join(Tail(cs))

Digits == {"0", "1", "2", "3", "4", "5", "6", "7", "8", "9"}
LowerOf(c) ==
    CASE c = "R" -> "r" [] c = "P" -> "p" [] c = "E" -> "e" [] c = "A" -> "a"
      [] c = "V" -> "v" [] c = "N" -> "n" [] OTHER -> c

\* label.replace(" ", "_").lower(), line 113.
NormLabel(cs) == [i \in 1..Len(cs) |-> LowerOf(IF cs[i] = " " THEN "_" ELSE cs[i])]

\* The end of the longest run of characters of S starting at position i
\* (i - 1 when there is none).
RECURSIVE RunEnd(_, _, _)
RunEnd(cs, i, S) == IF i <= Len(cs) /\ cs[i] \in S THEN RunEnd(cs, i + 1, S) ELSE i - 1

\* The end of the match of \d+\.*\d* that starts at the digit at position i.
MatchEnd(cs, i) == RunEnd(cs, RunEnd(cs, RunEnd(cs, i, Digits) + 1, {"."}) + 1, Digits)

\* re.findall(r"\d+\.*\d*", value), line 115: the non-overlapping matches,
\* scanning left to right.
RECURSIVE FindAllFrom(_, _)
FindAllFrom(cs, i) ==
    IF i > Len(cs) THEN <<>>
    ELSE IF cs[i] \in Digits
         THEN <<SubSeq(cs, i, MatchEnd(cs, i))>> \o FindAllFrom(cs, MatchEnd(cs, i) + 1)
         ELSE FindAllFrom(cs, i + 1)

\* "/".join(all_finds), line 116.
RECURSIVE JoinSlash(_)
JoinSlash(ms) ==
    IF ms = <<>> THEN <<>>
    ELSE IF Len(ms) = 1 THEN ms[1]
    ELSE ms[1] \o <<"/">> \o JoinSlash(Tail(ms))

NormValue(cs) == JoinSlash(FindAllFrom(cs, 1))

\* A filter that keeps the empty texts too.
FilterEmptyKeepsAll(xs) == xs

\* filter(lambda a: a != "", xs), lines 109-110.
RECURSIVE FilterEmpty(_)
FilterEmpty(xs) ==
    IF xs = <<>> THEN <<>>
    ELSE IF Head(xs) = <<>> THEN FilterEmpty(Tail(xs))
    ELSE <<Head(xs)>> \o FilterEmpty(Tail(xs))

Min(a, b) == IF a <= b THEN a ELSE b

\* Lines 111-116: the dict built from the zip of the two filtered
\* collections; a later pair with the same label overwrites an earlier one.
RECURSIVE ZipDict(_, _, _)
ZipDict(ls, vs, n) ==
    IF n = 0 THEN <<>>
    ELSE LET d == ZipDict(ls, vs, n - 1)
             k == Join(NormLabel(ls[n]))
         IN [x \in DOMAIN d \cup {k} |-> IF x = k THEN Join(NormValue(vs[n])) ELSE d[x]]

SpecDict(labels, values) ==
    LET ls == FilterEmpty(labels)
        vs == FilterEmpty(values)
    IN ZipDict(ls, vs, Min(Len(ls), Len(vs)))

\* ------------------------------------------------- ABBScrapping.get_bom
\* A float is kept exactly: its integer part and its fraction digits without
\* trailing zeros.  NaN is what pandas holds for an empty cell.
NaN == [int |-> 0 - 1, frac |-> <<>>]

DigitVal(c) == CHOOSE n \in 0..9 : <<"0", "1", "2", "3", "4", "5", "6", "7", "8", "9">>[n + 1] = c
RECURSIVE NatOf(_)
NatOf(ds) == IF ds = <<>> THEN 0 ELSE 10 * NatOf(SubSeq(ds, 1, Len(ds) - 1)) + DigitVal(ds[Len(ds)])
RECURSIVE StripZeros(_)
StripZeros(ds) ==
    IF ds # <<>> /\ ds[Len(ds)] = "0" THEN StripZeros(SubSeq(ds, 1, Len(ds) - 1)) ELSE ds

\* float(text) for the decimal forms digits, digits.digits, digits. and
\* .digits: None when the text is none of them (ValueError).
ParseFloat(cs) ==
    LET p == RunEnd(cs, 1, Digits)
        q == RunEnd(cs, p + 2, Digits)
    IN IF p >= 1 /\ p = Len(cs)
       THEN Some([int |-> NatOf(cs), frac |-> <<>>])
       ELSE IF p < Len(cs) /\ cs[p + 1] = "." /\ q = Len(cs) /\ (p >= 1 \/ q >= p + 2)
            THEN Some([int |-> NatOf(SubSeq(cs, 1, p)), frac |-> StripZeros(SubSeq(cs, p + 2, q))])
            ELSE None

\* str.split(" ", expand=True)[0], line 148: the text before the first space.
RECURSIVE FirstToken(_)
FirstToken(cs) ==
    IF cs = <<>> \/ Head(cs) = " " THEN <<>> ELSE <<Head(cs)>> \o FirstToken(Tail(cs))

\* pandas.read_html infers a numeric dtype for a column whose cells are all
\* numbers (or empty); Series.str then raises AttributeError.
IsNumericColumn(rows) ==
    \A i \in 1..Len(rows) : IsNone(rows[i].quantity) \/ ~IsNone(ParseFloat(Val(rows[i].quantity)))

\* Lines 148-149 on one cell: an empty cell stays NaN.
QuantityOf(cell) == IF IsNone(cell) THEN Some(NaN) ELSE ParseFloat(FirstToken(Val(cell)))

\* convert_html_table, src/src/utils.py lines 7-27, on the markup of the
\* panel (None: it holds no table).  pandas.read_html raises
\* ValueError("No tables found") instead of returning an empty list, so the
\* empty DataFrame of the last line is never returned.
convert_html_table(markup) ==
    IF IsNone(markup) THEN Raise("ValueError") ELSE Return(Val(markup))

\* get_bom, lines 135-150, on the page dom: the bom it sets (None when it
\* returns early), the warning it logs and the exception it raises.
get_bom(dom) ==
    IF ~dom.parts_tab THEN [raised |-> "", bom |-> None, warn |-> FALSE]
    ELSE IF ~dom.pane
         \* find_element returned None: tables.get_attribute
         THEN [raised |-> "AttributeError", bom |-> None, warn |-> FALSE]
    ELSE IF convert_html_table(dom.table).raised
         THEN [raised |-> convert_html_table(dom.table).exc, bom |-> None, warn |-> FALSE]
    ELSE IF Val(dom.table).rows = <<>>
         THEN [raised |-> "", bom |-> None, warn |-> TRUE]
    ELSE IF ~Val(dom.table).has_quantity
         THEN [raised |-> "KeyError", bom |-> None, warn |-> FALSE]
    ELSE IF IsNumericColumn(Val(dom.table).rows)
         THEN [raised |-> "AttributeError", bom |-> None, warn |-> FALSE]
    ELSE IF \E i \in 1..Len(Val(dom.table).rows) : IsNone(QuantityOf(Val(dom.table).rows[i].quantity))
         THEN [raised |-> "ValueError", bom |-> None, warn |-> FALSE]
    ELSE [raised |-> "", warn |-> FALSE,
          bom |-> Some([i \in 1..Len(Val(dom.table).rows) |->
                          [part_number |-> Val(dom.table).rows[i].part_number,
                           quantity |-> Val(QuantityOf(Val(dom.table).rows[i].quantity))]])]

\* ------------------------------------------- ABBScrapping.download_cad
WordChars == Digits \cup {"a", "b", "c", "d", "h", "p", "t", "x", "_", "A", "B", "F"}
\* ord(c) of the non-word characters that are enumerated.
Ord(c) ==
    CASE c = "#" -> 35 [] c = "%" -> 37 [] c = "&" -> 38 [] c = "-" -> 45 [] c = "." -> 46
      [] c = "/" -> 47 [] c = ":" -> 58 [] c = "=" -> 61 [] c = "?" -> 63

HexDigit(n) == <<"0", "1", "2", "3", "4", "5", "6", "7", "8", "9", "A", "B", "C", "D", "E", "F">>[n + 1]
RECURSIVE HexOf(_)
HexOf(n) == IF n < 16 THEN <<HexDigit(n)>> ELSE Append(HexOf(n \div 16), HexDigit(n % 16))
\* hex(ord(c)).replace("0x", "%").upper(), line 225.
HexAscii(c) == <<"%">> \o HexOf(Ord(c))

\* re.sub(rf"\{c}", hex_ascii, url_string), line 226: every occurrence of c.
RECURSIVE ReplaceChar(_, _, _)
ReplaceChar(cs, c, rep) ==
    IF cs = <<>> THEN <<>>
    ELSE (IF Head(cs) = c THEN rep ELSE <<Head(cs)>>) \o ReplaceChar(Tail(cs), c, rep)

\* Lines 224-226 for one iteration order of the set non_words_char.
RECURSIVE EscapeInOrder(_, _)
EscapeInOrder(cs, order) ==
    IF order = <<>> THEN cs
    ELSE EscapeInOrder(ReplaceChar(cs, Head(order), HexAscii(Head(order))), Tail(order))

\* Lines 222-226: the escaped url, one per iteration order of the set.
EscapedUrls(cs) == {EscapeInOrder(cs, o) : o \in Perms({c \in Range(cs) : c \notin WordChars})}

\* Path.as_posix().replace("output/", ""), lines 234 and 257: the path
\* without its "output" directory segments.
RECURSIVE StripOutput(_)
StripOutput(path) ==
    IF Len(path) <= 1 THEN path
    ELSE IF Head(path) = OUTPUT THEN StripOutput(Tail(path))
    ELSE <<Head(path)>> \o StripOutput(Tail(path))

\* ------------------------------------------------- Request.get_response
\* What the GET of a URL can do: succeed with a success status, time out,
\* fail to connect, return an error status, or raise any other exception of
\* the HTTP library (too many redirects, an invalid URL, ...).
GetOutcomes == {"ok", "Timeout", "ConnectionError", "HTTPError", "Other"}
\* The failures get_response names in its except clauses, lines 31-36.
NamedFailures == {"Timeout", "ConnectionError", "HTTPError"}

LogEntry(level, msg) == [level |-> level, msg |-> msg]

\* get_response, lines 10-41.  The clause "except Exception as error: pass"
\* unbinds the local name error when it ends, so the logger.error(error)
\* that follows raises UnboundLocalError.
get_response(outcome) ==
    IF outcome = "ok" THEN [raised |-> "", response |-> TRUE, log |-> <<>>]
    ELSE IF outcome \in NamedFailures
         THEN [raised |-> "", response |-> FALSE, log |-> <<LogEntry("error", "get_response")>>]
         ELSE [raised |-> "UnboundLocalError", response |-> FALSE, log |-> <<>>]

\* Request.download, lines 43-61, on the io state st = [disk, http, log,
\* raised]: nothing is done once an earlier call has raised.
download(st, url, dst, outcome) ==
    IF st.raised # "" THEN st
    ELSE LET r == get_response(outcome) IN
         [disk |-> IF r.raised = "" /\ r.response THEN st.disk \cup {dst} ELSE st.disk,
          http |-> Append(st.http, [url |-> url, outcome |-> outcome]),
          log |-> st.log \o r.log \o
                  (IF r.raised = "" /\ ~r.response THEN <<LogEntry("error", "download")>> ELSE <<>>),
          raised |-> r.raised]

RECURSIVE RunDownloads(_, _, _)
RunDownloads(st, jobs, outs) ==
    IF jobs = <<>> THEN st
    ELSE RunDownloads(download(st, Head(jobs).url, Head(jobs).dst, Head(outs)), Tail(jobs), Tail(outs))

\* ---------------------------------------- ABBScrapping.download_assets
\* The prefix of the CAD download request; it comes from the configuration.
DEFAULT_URL_DOWNLOAD == "https://www.baldor.com/api/products/download/?value="

\* download_files, lines 239-257, as the download it asks for: none when
\* the element is absent.
FileJobs(element, out_path) ==
    IF IsNone(element) THEN <<>> ELSE <<[url |-> Val(element), dst |-> out_path]>>

\* Lines 221-232: one download per descriptor; escs[i] is the escaped url
\* of descriptor i.
CadJobs(cad_list, escs, prod_out_path) ==
    [i \in 1..Len(cad_list) |->
        [url |-> DEFAULT_URL_DOWNLOAD \o cad_list[i].value \o "&url=" \o Join(escs[i]),
         dst |-> Append(prod_out_path, cad_list[i].value)]]

\* The choices of one escaped url per descriptor.
CadEscapes(cad_list) ==
    {e \in [1..Len(cad_list) -> UNION {EscapedUrls(cad_list[i].url) : i \in 1..Len(cad_list)}] :
        \A i \in 1..Len(cad_list) : e[i] \in EscapedUrls(cad_list[i].url)}

\* Lines 234-235: name -> relative path, the last descriptor of a name wins.
RECURSIVE CadMetadata(_, _, _)
CadMetadata(cad_list, prod_out_path, n) ==
    IF n = 0 THEN <<>>
    ELSE LET d == CadMetadata(cad_list, prod_out_path, n - 1)
             k == cad_list[n].name
         IN [x \in DOMAIN d \cup {k} |->
                IF x = k THEN StripOutput(Append(prod_out_path, cad_list[n].value)) ELSE d[x]]

\* The descriptors download_cad iterates over: none when the element is
\* absent, the literal does not parse, or the list is empty.
CadList(dom) ==
    IF IsNone(dom.cad) \/ ~Val(dom.cad).wellformed THEN <<>> ELSE Val(dom.cad).list

\* The downloads of download_assets in their order: image, manual, CAD files.
AssetJobs(dom, prod_out_path, escs) ==
    FileJobs(dom.image, Append(prod_out_path, "img.jpg"))
        \o FileJobs(dom.manual, Append(prod_out_path, "manual.pdf"))
        \o CadJobs(CadList(dom), escs, prod_out_path)

\* download_assets, lines 163-190, with download_cad and download_files, on
\* the io state st: outs[i] is the outcome of the GET of the i-th download.
\* It returns the io state after it and the assets it sets (None when it
\* returns early or raises).
download_assets(dom, product_id, st, outs, escs) ==
    IF ~dom.drawings_tab THEN [io |-> st, assets |-> None]
    ELSE IF IsNone(product_id)
         \* self.output_path["assets"] / None
         THEN [io |-> [st EXCEPT !.raised = "TypeError"], assets |-> None]
    ELSE LET dir == Append(AssetsDir, Val(product_id))
             made == [st EXCEPT !.disk = @ \cup {dir}]
             after == RunDownloads(made, AssetJobs(dom, dir, escs), outs)
             warn == IsNone(dom.cad) \/ (Val(dom.cad).wellformed /\ Val(dom.cad).list = <<>>)
         IN IF after.raised # "" THEN [io |-> after, assets |-> None]
            ELSE IF ~IsNone(dom.cad) /\ ~Val(dom.cad).wellformed
                 \* ast.literal_eval of the ng-init text
                 THEN [io |-> [after EXCEPT !.raised = "SyntaxError"], assets |-> None]
            ELSE [io |-> [after EXCEPT !.log = IF warn THEN Append(@, LogEntry("warning", "cad")) ELSE @],
                  assets |-> Some([image |-> IF IsNone(dom.image) THEN None
                                             ELSE Some(StripOutput(Append(dir, "img.jpg"))),
                                   manual |-> IF IsNone(dom.manual) THEN None
                                              ELSE Some(StripOutput(Append(dir, "manual.pdf"))),
                                   cad |-> IF CadList(dom) = <<>> THEN None
                                           ELSE Some(CadMetadata(CadList(dom), dir, Len(CadList(dom))))])]

\* ---------------------------------------------------------------- state
VARIABLES
    pc,             \* where main is: the step it takes next
    cfg,            \* the configuration: unique, scraping_limit, only_new
    feed,           \* the ids of the catalog document (None: its GET fails)
    disk,           \* the paths that exist under the output root
    processed_ids,  \* main's processed_ids
    products_list,  \* main's products_list
    idx,            \* the position of the for loop in products_list
    product_info,   \* the JsonSchema of the current scrapper object
    driver,         \* its connection.driver: 0 (None) or a session of sessions
    dom,            \* the page the driver holds
    sessions,       \* every browser session started so far
    trace,          \* the stages executed so far, in order
    http,           \* the GETs of product pages and assets issued so far
    log,            \* what the logger has written (error, warning, success)
    exc             \* the exception that ended main, "" when none

vars == <<pc, cfg, feed, disk, processed_ids, products_list, idx, product_info,
          driver, dom, sessions, trace, http, log, exc>>

\* JsonSchema(), src/src/base_scrapping.py: every field None.
JsonSchema ==
    [product_id |-> None, name |-> None, description |-> None,
     specs |-> None, bom |-> None, assets |-> None]

\* The order of run_scrapping's steps, lines 276-290.
Stages == <<"CheckExists", "LoadPage", "Head", "Specs", "BOM", "Assets", "ClosePage", "Persist">>
StageIndex(s) == CHOOSE i \in 1..Len(Stages) : Stages[i] = s
\* StageAfter with get_specs called before get_head.
StageAfterSwapped(s) ==
    CASE s = "LoadPage" -> "Specs" [] s = "Specs" -> "Head" [] s = "Head" -> "BOM"
      [] s = "Persist" -> "Loop" [] OTHER -> Stages[StageIndex(s) + 1]

\* The step that follows a step that completed; "Loop" is main's for loop.
StageAfter(s) == IF s = "Persist" THEN "Loop" ELSE Stages[StageIndex(s) + 1]

\* The product a URL is the page of.
IdOf(url) == CHOOSE id \in Ids : PRODUCT_URL \o id = url
CurrentUrl == products_list[idx]

Stage(name) == [run |-> idx, stage |-> name]

\* An exception nothing catches below main: logger.catch logs it and main
\* ends (main.py line 27).
Crash(e) ==
    /\ pc' = "Crashed"
    /\ exc' = e

\* ------------------------------------------------------------- main.main
\* Lines 44-47.
GetProcessedIds ==
    /\ pc = "GetProcessedIds"
    /\ processed_ids' = IF cfg.only_new THEN get_processed_ids(disk) ELSE None
    /\ pc' = "GetProducts"
    /\ UNCHANGED <<cfg, feed, disk, products_list, idx, product_info, driver, dom,
                   sessions, trace, http, log, exc>>

\* BaseScrapping.__init__, lines 53-59: the output folders are created.
MakeOutputDirs(dsk) == dsk \cup {<<OUTPUT>>, AssetsDir, MetadataDir}

\* Lines 53-61: the scrapper is instantiated, get_products is called, and
\* main returns when the list is empty.
GetProducts ==
    /\ pc = "GetProducts"
    /\ disk' = MakeOutputDirs(disk)
    /\ \E r \in get_products(cfg.limit, cfg.unique, processed_ids, feed) :
          IF r.raised
          THEN /\ Crash(r.exc)
               /\ log' = Append(log, LogEntry("error", "catch"))
               /\ UNCHANGED products_list
          ELSE /\ products_list' = r.value
               /\ IF r.value = <<>>
                  THEN /\ pc' = "Done"
                       /\ log' = Append(log, LogEntry("warning", "no products"))
                  ELSE /\ pc' = "Loop"
                       /\ UNCHANGED log
               /\ UNCHANGED exc
    /\ UNCHANGED <<cfg, feed, processed_ids, idx, product_info, driver, dom,
                   sessions, trace, http>>

\* Lines 64-67: the next URL is taken and a new scrapper is instantiated for
\* it (a new JsonSchema, a new SelConnection whose driver is None).
LoopNext ==
    /\ pc = "Loop"
    /\ idx < Len(products_list)
    /\ idx' = idx + 1
    /\ product_info' = JsonSchema
    /\ driver' = 0
    /\ dom' = None
    /\ disk' = MakeOutputDirs(disk)
    /\ pc' = "CheckExists"
    /\ UNCHANGED <<cfg, feed, processed_ids, products_list, sessions, trace, http, log, exc>>

\* The for loop is exhausted: main returns.
LoopEnd ==
    /\ pc = "Loop"
    /\ idx = Len(products_list)
    /\ pc' = "Done"
    /\ UNCHANGED <<cfg, feed, disk, processed_ids, products_list, idx, product_info,
                   driver, dom, sessions, trace, http, log, exc>>

\* --------------------------------------------- ABBScrapping.run_scrapping
\* Lines 275-277: the existence probe; run_scrapping returns when it fails.
CheckExists ==
    /\ pc = "CheckExists"
    /\ trace' = Append(trace, Stage("CheckExists"))
    /\ \E outcome \in GetOutcomes :
          LET r == get_response(outcome) IN
          /\ http' = Append(http, [url |-> CurrentUrl, outcome |-> outcome])
          /\ IF r.raised # ""
             THEN /\ Crash(r.raised)
                  /\ log' = Append(log, LogEntry("error", "catch"))
             ELSE /\ pc' = IF r.response THEN StageAfter("CheckExists") ELSE "Loop"
                  /\ log' = log \o r.log
                  /\ UNCHANGED exc
    /\ UNCHANGED <<cfg, feed, disk, processed_ids, products_list, idx, product_info,
                   driver, dom, sessions>>

\* SelConnection.load_page, lines 93-94: what starting Chrome and loading
\* the URL can do.
LoadOutcomes == {"ok", "ChromeFails", "GetFails"}

\* Line 280 with load_page: a new session is started and the page loaded
\* into it.  Neither webdriver.Chrome nor driver.get is guarded.
LoadPage(pages) ==
    /\ pc = "LoadPage"
    /\ trace' = Append(trace, Stage("LoadPage"))
    /\ \E outcome \in LoadOutcomes :
          IF outcome = "ChromeFails"
          THEN /\ Crash("WebDriverException")
               /\ log' = Append(log, LogEntry("error", "catch"))
               /\ UNCHANGED <<driver, dom, sessions>>
          ELSE /\ sessions' = Append(sessions, [url |-> CurrentUrl, open |-> TRUE])
               /\ driver' = Len(sessions) + 1
               /\ IF outcome = "GetFails"
                  THEN /\ Crash("WebDriverException")
                       /\ log' = Append(log, LogEntry("error", "catch"))
                       /\ UNCHANGED dom
                  ELSE /\ \E page \in pages : dom' = Some(page)
                       /\ pc' = StageAfter("LoadPage")
                       /\ UNCHANGED <<log, exc>>
    /\ UNCHANGED <<cfg, feed, disk, processed_ids, products_list, idx, product_info, http>>

\* get_head, lines 75-80: the text of each element, None when it is absent.
GetHead ==
    /\ pc = "Head"
    /\ trace' = Append(trace, Stage("Head"))
    /\ product_info' = [product_info EXCEPT !.product_id = Val(dom).title,
                                            !.description = Val(dom).desc]
    /\ pc' = StageAfter("Head")
    /\ UNCHANGED <<cfg, feed, disk, processed_ids, products_list, idx, driver, dom,
                   sessions, http, log, exc>>

\* get_specs, lines 93-118.  find_elements returns a list, never None, so
\* the "Product without specs" branch is not taken.
GetSpecs ==
    /\ pc = "Specs"
    /\ trace' = Append(trace, Stage("Specs"))
    /\ product_info' = IF Val(dom).specs_tab
                       THEN [product_info EXCEPT !.specs = Some(SpecDict(Val(dom).labels, Val(dom).values))]
                       ELSE product_info
    /\ pc' = StageAfter("Specs")
    /\ UNCHANGED <<cfg, feed, disk, processed_ids, products_list, idx, driver, dom,
                   sessions, http, log, exc>>

\* get_bom, lines 135-150.
GetBom ==
    /\ pc = "BOM"
    /\ trace' = Append(trace, Stage("BOM"))
    /\ LET r == get_bom(Val(dom)) IN
          IF r.raised # ""
          THEN /\ Crash(r.raised)
               /\ log' = Append(log, LogEntry("error", "catch"))
               /\ UNCHANGED product_info
          ELSE /\ product_info' = IF IsNone(r.bom) THEN product_info
                                  ELSE [product_info EXCEPT !.bom = r.bom]
               /\ log' = IF r.warn THEN Append(log, LogEntry("warning", "bom")) ELSE log
               /\ pc' = StageAfter("BOM")
               /\ UNCHANGED exc
    /\ UNCHANGED <<cfg, feed, disk, processed_ids, products_list, idx, driver, dom,
                   sessions, http>>

\* What the GET of an asset can do, by the branch of get_response it takes.
DownloadOutcomes == {"ok", "HTTPError", "Other"}
\* The number of downloads download_assets asks for on a page.
NumDownloads(page) ==
    Len(FileJobs(page.image, <<>>)) + Len(FileJobs(page.manual, <<>>)) + Len(CadList(page))

\* download_assets, lines 163-190.
DownloadAssets ==
    /\ pc = "Assets"
    /\ trace' = Append(trace, Stage("Assets"))
    /\ \E outs \in [1..NumDownloads(Val(dom)) -> DownloadOutcomes] :
       \E escs \in CadEscapes(CadList(Val(dom))) :
          LET r == download_assets(Val(dom), product_info.product_id,
                                   [disk |-> disk, http |-> http, log |-> log, raised |-> ""],
                                   outs, escs)
          IN /\ disk' = r.io.disk
             /\ http' = r.io.http
             /\ IF r.io.raised # ""
                THEN /\ Crash(r.io.raised)
                     /\ log' = Append(r.io.log, LogEntry("error", "catch"))
                     /\ UNCHANGED product_info
                ELSE /\ product_info' = IF IsNone(r.assets) THEN product_info
                                        ELSE [product_info EXCEPT !.assets = r.assets]
                     /\ log' = r.io.log
                     /\ pc' = StageAfter("Assets")
                     /\ UNCHANGED exc
    /\ UNCHANGED <<cfg, feed, processed_ids, products_list, idx, driver, dom, sessions>>

\* close that does not quit the driver.
closeKeepsOpen(ss, d) == ss

\* SelConnection.close, lines 118-123: driver.quit() on the session.
close(ss, d) == [ss EXCEPT ![d].open = FALSE]

\* Line 285.
ClosePage ==
    /\ pc = "ClosePage"
    /\ trace' = Append(trace, Stage("ClosePage"))
    /\ sessions' = close(sessions, driver)
    /\ pc' = StageAfter("ClosePage")
    /\ UNCHANGED <<cfg, feed, disk, processed_ids, products_list, idx, product_info,
                   driver, dom, http, log, exc>>

\* What open and json.dump can do in json_write.
WriteOutcomes == {"ok", "TypeError", "IOError"}

\* json_write, src/src/utils.py lines 30-56, on the disk: the file exists
\* once it was opened, also when json.dump then fails; every exception is
\* logged and turned into False.
json_write(dsk, fname, outcome) ==
    [disk |-> IF outcome = "IOError" THEN dsk ELSE dsk \cup {fname},
     ok |-> outcome = "ok",
     log |-> IF outcome = "ok" THEN <<>> ELSE <<LogEntry("error", "json_write")>>]

\* Lines 287-291: the record is written under the name of its product_id;
\* the result of json_write is not looked at.
Persist ==
    /\ pc = "Persist"
    /\ trace' = Append(trace, Stage("Persist"))
    /\ \E outcome \in WriteOutcomes :
          LET w == json_write(disk, MetadataFile(Str(product_info.product_id)), outcome) IN
          /\ disk' = w.disk
          /\ log' = log \o w.log \o <<LogEntry("success", Str(product_info.product_id))>>
    /\ pc' = StageAfter("Persist")
    /\ UNCHANGED <<cfg, feed, processed_ids, products_list, idx, product_info, driver,
                   dom, sessions, http, exc>>

\* ------------------------------------------------------------- the pages
\* The texts of a specs tab: two labels around an empty one, two values.
SpecLabels == <<<<"R", " ", "P">>, <<>>, <<"V">>>>
SpecValues == <<<<"4", ".", "5", " ", "1", "1", "4">>, <<"N", "/", "A">>>>

\* The quantity cells of a parts table: a number and a unit, a unit alone,
\* a number alone, an empty cell.
QuantityCells == {Some(<<"1", "2", " ", "E", "A">>), Some(<<"E", "A">>), Some(<<"4">>), None}
Tables ==
    {[has_quantity |-> TRUE, rows |-> <<>>]}
        \cup {[has_quantity |-> h, rows |-> <<[part_number |-> "P1", quantity |-> q]>>] :
                h \in BOOLEAN, q \in QuantityCells}

\* The parts tab of a page: absent, without its panel, a panel without a
\* table, or a panel with a table.
PartsShapes ==
    {[parts_tab |-> FALSE, pane |-> FALSE, table |-> None],
     [parts_tab |-> TRUE, pane |-> FALSE, table |-> None],
     [parts_tab |-> TRUE, pane |-> TRUE, table |-> None]}
        \cup {[parts_tab |-> TRUE, pane |-> TRUE, table |-> Some(t)] : t \in Tables}

CadFile == [name |-> "STEP", value |-> "a.stp", url |-> <<"c", "a", "d", "/", "a", ".", "x">>]
\* The ng-init attribute of the CAD section: absent, not a literal, an empty
\* list, one descriptor.
CadShapes ==
    {None, Some([wellformed |-> FALSE, list |-> <<>>]),
     Some([wellformed |-> TRUE, list |-> <<>>]), Some([wellformed |-> TRUE, list |-> <<CadFile>>])}

\* The drawings tab of a page: absent, or present with or without the image
\* and the manual link and any CAD section.
DrawingsShapes ==
    {[drawings_tab |-> FALSE, image |-> None, manual |-> None, cad |-> None]}
        \cup {[drawings_tab |-> TRUE, image |-> i, manual |-> m, cad |-> c] :
                i \in {None, Some("img")}, m \in {None, Some("pdf")}, c \in CadShapes}

\* The pages the site can serve for a product: its title shows the id.
Pages(id) ==
    {[title |-> t, desc |-> Some("desc"), specs_tab |-> st,
      labels |-> IF st THEN SpecLabels ELSE <<>>, values |-> IF st THEN SpecValues ELSE <<>>,
      parts_tab |-> p.parts_tab, pane |-> p.pane, table |-> p.table,
      drawings_tab |-> d.drawings_tab, image |-> d.image, manual |-> d.manual, cad |-> d.cad] :
        t \in {None, Some(id)}, st \in BOOLEAN, p \in PartsShapes, d \in DrawingsShapes}

\* ------------------------------------------------------------------- runs
AllIds == [i \in 1..NumIds |-> IdPool[i]]
NoUnique == [type |-> "NoneType", items |-> <<>>]
ListOf(items) == [type |-> "list", items |-> items]
\* Values of cfg["unique"] that are no list: a string, a number, a mapping.
NonLists == {[type |-> "str", items |-> <<"A">>], [type |-> "int", items |-> <<>>],
             [type |-> "dict", items |-> <<>>]}

\* What a previous run that scraped product A left on the disk.
PriorDisk == MakeOutputDirs({}) \cup {MetadataFile(IdPool[1])}

InitRest ==
    /\ pc = "GetProcessedIds"
    /\ processed_ids = None
    /\ products_list = <<>>
    /\ idx = 0
    /\ product_info = JsonSchema
    /\ driver = 0
    /\ dom = None
    /\ sessions = <<>>
    /\ trace = <<>>
    /\ http = <<>>
    /\ log = <<>>
    /\ exc = ""

\* The pages of the runs over several products: the head and the specs are
\* there, the parts tab is absent or broken, the drawings tab is absent or
\* shows an image only.
RunPages(id) ==
    {p \in Pages(id) : /\ ~IsNone(p.title)
                       /\ p.specs_tab
                       /\ IsNone(p.table)
                       /\ IsNone(p.manual)
                       /\ IsNone(p.cad)
                       /\ (p.drawings_tab => ~IsNone(p.image))}

\* A run over the whole catalog, a sample of it or an explicit list of all
\* its ids, on an empty disk or after a previous run, and the misconfigured
\* runs.
Init ==
    /\ cfg \in {[unique |-> u, limit |-> l, only_new |-> o] :
                  u \in {NoUnique, ListOf(AllIds)} \cup NonLists,
                  l \in {None, Some(1), Some(NumIds + 1)}, o \in BOOLEAN}
    /\ feed = Some(Ids)
    /\ disk \in {{}, PriorDisk}
    /\ InitRest

Next ==
    \/ GetProcessedIds
    \/ GetProducts
    \/ LoopNext
    \/ LoopEnd
    \/ CheckExists
    \/ LoadPage(RunPages(IdOf(CurrentUrl)))
    \/ GetHead
    \/ GetSpecs
    \/ GetBom
    \/ DownloadAssets
    \/ ClosePage
    \/ Persist

Spec == Init /\ [][Next]_vars

\* ------------------------------------------------- one product, any page
\* A run over the explicit list of one id, on an empty disk or over the
\* files of a previous run; the site serves any of the pages.
InitProduct ==
    /\ cfg = [unique |-> ListOf(<<IdPool[1]>>), limit |-> None, only_new |-> FALSE]
    /\ feed = Some(Ids)
    /\ disk \in {{}, PriorDisk}
    /\ InitRest

NextProduct ==
    \/ GetProcessedIds
    \/ GetProducts
    \/ LoopNext
    \/ LoopEnd
    \/ CheckExists
    \/ LoadPage(Pages(IdOf(CurrentUrl)))
    \/ GetHead
    \/ GetSpecs
    \/ GetBom
    \/ DownloadAssets
    \/ ClosePage
    \/ Persist

SpecProduct == InitProduct /\ [][NextProduct]_vars

\* --------------------------------------------------- the resolver alone
\* Every configuration, catalog and disk within the bounds; main is followed
\* up to the return of get_products.
InitResolve ==
    /\ cfg \in {[unique |-> u, limit |-> l, only_new |-> o] :
                  u \in {NoUnique} \cup NonLists \cup {ListOf(s) : s \in SeqUpTo(Ids, MaxUnique)},
                  l \in Option((0 - 1)..(NumIds + 1)), o \in BOOLEAN}
    /\ feed \in Option(SUBSET Ids)
    /\ disk \in {{}} \cup {MakeOutputDirs({}) \cup {MetadataFile(st) : st \in S} : S \in SUBSET Stems}
    /\ InitRest

NextResolve ==
    \/ GetProcessedIds
    \/ GetProducts

SpecResolve == InitResolve /\ [][NextResolve]_vars

\* ------------------------------------------- one product, one section
\* A page that shows the head of the product and nothing else.
BasePage(id) ==
    [title |-> Some(id), desc |-> Some("desc"), specs_tab |-> FALSE,
     labels |-> <<>>, values |-> <<>>,
     parts_tab |-> FALSE, pane |-> FALSE, table |-> None,
     drawings_tab |-> FALSE, image |-> None, manual |-> None, cad |-> None]

\* The longest raw url of a CAD descriptor.
MaxUrlLen == 3
\* The characters of the raw urls: a word character and non-word characters,
\* the percent sign among them.  The ng-init text is stripped of white space
\* before it is parsed (line 216), so a url holds none.
UrlChars == {"a", "/", "%", "#"}
CadUrls == SeqUpTo(UrlChars, MaxUrlLen) \ {<<>>}

\* The pages whose drawings tab shows one CAD descriptor, of any raw url.
CadPages(id) ==
    {[BasePage(id) EXCEPT !.drawings_tab = TRUE,
                          !.cad = Some([wellformed |-> TRUE,
                                        list |-> <<[CadFile EXCEPT !.url = u]>>])] :
        u \in CadUrls}

NextCad ==
    \/ GetProcessedIds
    \/ GetProducts
    \/ LoopNext
    \/ LoopEnd
    \/ CheckExists
    \/ LoadPage(CadPages(IdOf(CurrentUrl)))
    \/ GetHead
    \/ GetSpecs
    \/ GetBom
    \/ DownloadAssets
    \/ ClosePage
    \/ Persist

SpecCad == InitProduct /\ [][NextCad]_vars

\* The most label elements, and the most value elements, of a specs tab.
MaxTexts == 3
\* The texts of the label elements: empty, two spellings of one label, and
\* another label; the texts of the value elements: empty, a number, a text
\* without a number.
LabelTexts == {<<>>, <<"R", " ", "P">>, <<"r", "_", "p">>, <<"V">>}
ValueTexts == {<<>>, <<"4", ".", "5">>, <<"N">>}

\* The pages whose specs tab shows any labels and values.
SpecsPages(id) ==
    {[BasePage(id) EXCEPT !.specs_tab = TRUE, !.labels = ls, !.values = vs] :
        ls \in SeqUpTo(LabelTexts, MaxTexts), vs \in SeqUpTo(ValueTexts, MaxTexts)}

NextSpecs ==
    \/ GetProcessedIds
    \/ GetProducts
    \/ LoopNext
    \/ LoopEnd
    \/ CheckExists
    \/ LoadPage(SpecsPages(IdOf(CurrentUrl)))
    \/ GetHead
    \/ GetSpecs
    \/ GetBom
    \/ DownloadAssets
    \/ ClosePage
    \/ Persist

SpecSpecs == InitProduct /\ [][NextSpecs]_vars

\* The most rows of a parts table.
MaxRows == 2
\* The parts tables with a quantity column and any quantity cells.
BomTables ==
    {[has_quantity |-> TRUE,
      rows |-> [i \in 1..Len(q) |-> [part_number |-> "P1", quantity |-> q[i]]]] :
        q \in SeqUpTo(QuantityCells, MaxRows)}

\* The pages whose parts tab shows one of these tables.
BomPages(id) ==
    {[BasePage(id) EXCEPT !.parts_tab = TRUE, !.pane = TRUE, !.table = Some(t)] : t \in BomTables}

NextBom ==
    \/ GetProcessedIds
    \/ GetProducts
    \/ LoopNext
    \/ LoopEnd
    \/ CheckExists
    \/ LoadPage(BomPages(IdOf(CurrentUrl)))
    \/ GetHead
    \/ GetSpecs
    \/ GetBom
    \/ DownloadAssets
    \/ ClosePage
    \/ Persist

SpecBom == InitProduct /\ [][NextBom]_vars

\* ----------------------------------------------------------------- claims
Called == pc \notin {"GetProcessedIds", "GetProducts"}
ProcessedSet == IF IsNone(processed_ids) THEN {} ELSE Val(processed_ids)
\* get_products is given a candidate set: an explicit list, or the catalog
\* (its document fetched) with no limit.
ExplicitMode == cfg.unique.type = "list"
CatalogMode == cfg.unique.type = "NoneType" /\ IsNone(cfg.limit) /\ ~IsNone(feed)
CandidateSet == IF ExplicitMode THEN Range(cfg.unique.items) ELSE Val(feed)

\* C1: once get_products has returned for an explicit id list (whatever the
\* limit) or for the whole catalog, it has raised nothing and the list it
\* returned holds exactly one URL, base path + id, for each id of the
\* candidates minus the processed ids, and nothing else; the list is empty
\* when nothing remains.
C1_ResolveExact ==
    (Called /\ (ExplicitMode \/ CatalogMode)) =>
        /\ exc = ""
        /\ Range(products_list) = {PRODUCT_URL \o id : id \in CandidateSet \ ProcessedSet}
        /\ Len(products_list) = Cardinality(CandidateSet \ ProcessedSet)

C1_Witness ==
    /\ Called
    /\ cfg.unique = ListOf(<<"A", "B">>)
    /\ processed_ids = Some({"B"})
    /\ products_list = <<PRODUCT_URL \o "A">>

\* C2: the stages of the trace come product by product; a product starts
\* with CheckExists, each further stage of it is the one that follows the
\* previous stage in CheckExists, LoadPage, Head, Specs, BOM, Assets,
\* ClosePage, Persist, and the next product starts only after the previous
\* one was skipped at CheckExists or went through Persist.
C2_StageOrder ==
    \A i \in 1..Len(trace) :
        IF i = 1 THEN trace[i] = [run |-> 1, stage |-> "CheckExists"]
        ELSE \/ /\ trace[i].run = trace[i - 1].run
                /\ trace[i - 1].stage # "Persist"
                /\ StageIndex(trace[i].stage) = StageIndex(trace[i - 1].stage) + 1
             \/ /\ trace[i].run = trace[i - 1].run + 1
                /\ trace[i].stage = "CheckExists"
                /\ trace[i - 1].stage \in {"CheckExists", "Persist"}

C2_Witness ==
    /\ Len(trace) = 2 * Len(Stages)
    /\ trace[Len(trace)] = [run |-> 2, stage |-> "Persist"]
    /\ trace[Len(Stages)] = [run |-> 1, stage |-> "Persist"]

\* The stages run for product number r, and the outcome of its probe.
StagesOf(r) == {trace[i].stage : i \in {j \in 1..Len(trace) : trace[j].run = r}}
ProbeFailed(r) == \E i \in 1..Len(http) : http[i].url = products_list[r] /\ http[i].outcome # "ok"
LastStage == IF trace = <<>> THEN "" ELSE trace[Len(trace)].stage

\* C3: whenever the existence probe of a product fails, whatever the
\* failure, no later stage is run for the product, no file is written for
\* it, and the run does not terminate on it.
C3_ProbeFailureSkips ==
    \A r \in 1..idx :
        ProbeFailed(r) =>
            /\ StagesOf(r) = {"CheckExists"}
            /\ \A p \in disk : Len(p) >= 3 => p[3] \notin {IdOf(products_list[r]), JsonName(IdOf(products_list[r]))}
            /\ pc # "Crashed"

\* C4: no browser session into which a page was loaded is open once the
\* processing of its product has ended (normally or by an exception).
C4_ClosedAfterProduct ==
    (pc \in {"Loop", "Done", "Crashed", "CheckExists", "LoadPage"} /\ LastStage # "LoadPage") =>
        \A i \in 1..Len(sessions) : ~sessions[i].open

\* C5: no metadata file is ever written under the name of a null product id.
C5_NoNullIdRecord == MetadataFile("None") \notin disk

\* A page all of whose facets are present and well-formed or degraded in
\* one of the ways the specification lists: a tab absent, an element
\* absent, a parts panel without table or with an empty one, no or an empty
\* CAD list.
ParsableQuantities(t) ==
    /\ t.has_quantity
    /\ \A i \in 1..Len(t.rows) :
          /\ ~IsNone(t.rows[i].quantity)
          /\ ~IsNone(ParseFloat(FirstToken(Val(t.rows[i].quantity))))
DegradedOrFine(page) ==
    /\ IsNone(page.table) \/ ParsableQuantities(Val(page.table))
    /\ IsNone(page.cad) \/ Val(page.cad).wellformed

\* C6: on a page whose conditions are at worst degraded, no stage after
\* LoadPage raises because of the page: the run is not ended in Head, Specs
\* or BOM, and in Assets only by a download that raised.
C6_BestEffortStages ==
    (pc = "Crashed" /\ ~IsNone(dom) /\ DegradedOrFine(Val(dom))) =>
        /\ LastStage \notin {"Head", "Specs", "BOM"}
        /\ LastStage = "Assets" => exc = "UnboundLocalError"

\* C7: a page-load failure does not end the run.
C7_LoadFailureSkips == pc = "Crashed" => LastStage # "LoadPage"

\* C8: a failed write of a product's record is not followed by the success
\* report for that product.
C8_WriteFailureReported ==
    \A i \in 1..Len(log) :
        (log[i] = LogEntry("error", "json_write") /\ i < Len(log)) => log[i + 1].level # "success"

\* The configuration errors of get_products: explicit ids that are no list,
\* or a limit above the number of catalog candidates.
ConfigError ==
    \/ cfg.unique.type \notin {"NoneType", "list"}
    \/ /\ cfg.unique.type = "NoneType"
       /\ ~IsNone(feed)
       /\ ~IsNone(cfg.limit)
       /\ Val(cfg.limit) > Cardinality(Val(feed))
NothingProcessed == products_list = <<>> /\ idx = 0 /\ trace = <<>> /\ http = <<>> /\ sessions = <<>>

\* C9: under a configuration error get_products raises and returns no URL,
\* main ends, no product is ever probed, loaded, downloaded or persisted,
\* and nothing but the output folders is created on the disk.
C9_ConfigErrorFailsRun ==
    /\ []((ConfigError /\ Called) => (pc = "Crashed" /\ exc = "ValueError" /\ NothingProcessed))
    /\ [][ConfigError => disk' \subseteq MakeOutputDirs(disk)]_vars

C9_Witness == ConfigError /\ pc = "Crashed" /\ cfg.unique.type = "int" /\ disk = MakeOutputDirs({})

OpenSessions == {i \in 1..Len(sessions) : sessions[i].open}
\* C10: at most one browser session is open at any time, no two sessions
\* were opened for the same product, and while a stage reads the page the
\* driver is the open session started last, which was opened for the
\* current product.
C10_SessionPerProduct ==
    /\ Cardinality(OpenSessions) <= 1
    /\ \A i, j \in 1..Len(sessions) : sessions[i].url = sessions[j].url => i = j
    /\ pc \in {"Head", "Specs", "BOM", "Assets", "ClosePage"} =>
          /\ driver = Len(sessions)
          /\ driver \in OpenSessions
          /\ sessions[driver].url = CurrentUrl

C10_Witness ==
    /\ pc = "Head"
    /\ idx = 2
    /\ Len(sessions) = 2
    /\ ~sessions[1].open
    /\ sessions[2].open

\* The character-by-character encoding of a url: a word character stays,
\* any other becomes '%' and the two uppercase hex digits of its code point.
RECURSIVE PercentEncoded(_)
PercentEncoded(cs) ==
    IF cs = <<>> THEN <<>>
    ELSE (IF Head(cs) \in WordChars THEN <<Head(cs)>> ELSE <<"%">> \o HexOf(Ord(Head(cs))))
            \o PercentEncoded(Tail(cs))

\* The GETs of CAD files issued so far.
CadRequests == {i \in 1..Len(http) : http[i].url # CurrentUrl}
\* C11: the url of every CAD download request carries the
\* character-by-character encoding of the raw url of its descriptor, for
\* every raw url, one that holds '%' included, whatever the order in which
\* the distinct non-word characters are replaced.
C11_EscapeCharByChar ==
    (pc \in {"ClosePage", "Persist"} /\ LastStage = "Assets") =>
        \A i \in CadRequests :
            LET d == CadList(Val(dom))[1] IN
            http[i].url = DEFAULT_URL_DOWNLOAD \o d.value \o "&url=" \o Join(PercentEncoded(d.url))

\* The texts of a collection that are not empty, in their order.
NonEmpty(xs) == SelectSeq(xs, LAMBDA x : x # <<>>)
\* L' and V' of the page, and the number of pairs.
FilteredLabels == NonEmpty(Val(dom).labels)
FilteredValues == NonEmpty(Val(dom).values)
NumPairs == Min(Len(FilteredLabels), Len(FilteredValues))
\* The key a label is stored under and the text a value is stored as.
KeyOf(label) == Join(NormLabel(label))
TextOf(value) == Join(NormValue(value))
SpecsOf == Val(product_info.specs)

\* C12 as stated: the mapping holds the pair of the i-th label and the i-th
\* value of the filtered collections for every i below the shorter length,
\* and nothing else; when the filtered labels are distinct it has exactly
\* that many keys.
C12_ZipAsStated ==
    ~IsNone(product_info.specs) =>
        /\ \A i \in 1..NumPairs :
              /\ KeyOf(FilteredLabels[i]) \in DOMAIN SpecsOf
              /\ SpecsOf[KeyOf(FilteredLabels[i])] = TextOf(FilteredValues[i])
        /\ DOMAIN SpecsOf \subseteq {KeyOf(FilteredLabels[i]) : i \in 1..NumPairs}
        /\ (\A i, j \in 1..Len(FilteredLabels) : FilteredLabels[i] = FilteredLabels[j] => i = j)
              => Cardinality(DOMAIN SpecsOf) = NumPairs

\* C12, amended: the keys of the mapping are the normalised labels of the
\* first min(|L'|,|V'|) filtered labels and nothing else; the i-th label is
\* paired with the i-th filtered value unless a later label below that
\* length has the same normalised form (the last one wins); when those
\* normalised labels are distinct the mapping has exactly that many keys.
C12_ZipAfterFilter ==
    ~IsNone(product_info.specs) =>
        /\ DOMAIN SpecsOf = {KeyOf(FilteredLabels[i]) : i \in 1..NumPairs}
        /\ \A i \in 1..NumPairs :
              (\A j \in (i + 1)..NumPairs : KeyOf(FilteredLabels[j]) # KeyOf(FilteredLabels[i]))
                 => SpecsOf[KeyOf(FilteredLabels[i])] = TextOf(FilteredValues[i])
        /\ (\A i, j \in 1..NumPairs : KeyOf(FilteredLabels[i]) = KeyOf(FilteredLabels[j]) => i = j)
              => Cardinality(DOMAIN SpecsOf) = NumPairs

\* The first label element is empty and was filtered out, more values than
\* labels are left, and two pairs were stored under two keys.
C12_Witness ==
    /\ ~IsNone(product_info.specs)
    /\ Len(Val(dom).labels) = MaxTexts
    /\ Val(dom).labels[1] = <<>>
    /\ Len(FilteredLabels) = 2
    /\ Len(FilteredValues) > Len(FilteredLabels)
    /\ Cardinality(DOMAIN SpecsOf) = 2

\* The rows of the parts table of the page, and whether the first
\* space-delimited token of the quantity cell of row i parses as a number.
BomRows == Val(Val(dom).table).rows
RowParses(i) ==
    /\ ~IsNone(BomRows[i].quantity)
    /\ ~IsNone(ParseFloat(FirstToken(Val(BomRows[i].quantity))))
BomStageRan == \E i \in 1..Len(trace) : trace[i].stage = "BOM"
Persisted == \E i \in 1..Len(trace) : trace[i].stage = "Persist"
\* C13: after the BOM stage on a non-empty table, bom is set only when the
\* first token of the quantity cell of every row parses as a number, and it
\* then holds every row with that number as its quantity; when some row's
\* cell does not start with a parsable number the stage has raised, bom is
\* null and no record is persisted.
C13_QuantityParsedOrRaised ==
    (BomStageRan /\ BomRows # <<>>) =>
        /\ ~IsNone(product_info.bom) =>
              /\ Len(Val(product_info.bom)) = Len(BomRows)
              /\ \A i \in 1..Len(BomRows) :
                    /\ RowParses(i)
                    /\ Val(product_info.bom)[i].quantity
                          = Val(ParseFloat(FirstToken(Val(BomRows[i].quantity))))
        /\ (\E i \in 1..Len(BomRows) : ~RowParses(i)) =>
              /\ pc = "Crashed"
              /\ LastStage = "BOM"
              /\ IsNone(product_info.bom)
              /\ ~Persisted

\* The paths recorded under assets of the record: image, manual and every
\* CAD entry that is not null.
RecordedPaths ==
    LET a == Val(product_info.assets) IN
    (IF IsNone(a.image) THEN {} ELSE {Val(a.image)})
        \cup (IF IsNone(a.manual) THEN {} ELSE {Val(a.manual)})
        \cup (IF IsNone(a.cad) THEN {} ELSE Range(Val(a.cad)))
\* C14: in a persisted record every path recorded under assets names a file
\* that a download of this product has written under the output root; a
\* download whose request failed leaves no path in the record.
C14_RecordedAssetsExist ==
    (/\ Persisted
     /\ MetadataFile(Str(product_info.product_id)) \in disk
     /\ ~IsNone(product_info.assets)) =>
        \A p \in RecordedPaths : <<OUTPUT>> \o p \in disk

====
